---- MODULE Spec2Model ----
(***************************************************************************)
(* Model of scripts/known_good/update_module_from_known_good.py and of     *)
(* scripts/known_good/models/known_good.py.                                *)
(*                                                                         *)
(* Text is modelled structurally: a commit hash is a sequence of one-      *)
(* character strings (so that the regular expression of line 66 is         *)
(* evaluated character by character), an override block is a record of    *)
(* the fields the f-strings of lines 51-58, 71-79 and 90-96 interpolate,   *)
(* and a generated file is a record of its header parts and its blocks.    *)
(* A missing (None) or empty string field is "" (<<>> for a commit): the   *)
(* code tests these fields by truthiness only.                             *)
(***************************************************************************)
EXTENDS Integers, Sequences, FiniteSets, TLC

VARIABLES
    \* ---- the run of main() ----
    pc,                 \* position of main(): start, load, mkdir, loop, done, fatal (idle: not run)
    args,               \* the parsed command line (argparse.Namespace)
    known_file,         \* the file at --known: whether it exists, and its JSON document
    dir_exists,         \* whether --output-dir exists on disk
    dir_created,        \* whether this run created --output-dir
    files,              \* files written by this run: group name -> content
    console,            \* what the run printed, in order
    repo_commit_dict,   \* the commit-override map built from --repo-override
    known_good,         \* the loaded KnownGood (modules in insertion order, timestamp)
    group_idx,          \* how many groups of known_good.modules the loop has consumed
    generated_files,    \* main's generated_files list
    total_module_count, \* main's total_module_count
    exit_msg,           \* the SystemExit message of a fatal exit, "" otherwise
    \* ---- direct calls of the generator functions ----
    call_modules,       \* the List[Module] argument
    call_dict,          \* the repo_commit_dict argument
    call_result         \* which function was called, and the value it returned

vars == <<pc, args, known_file, dir_exists, dir_created, files, console,
          repo_commit_dict, known_good, group_idx, generated_files,
          total_module_count, exit_msg, call_modules, call_dict, call_result>>

main_vars == <<pc, args, known_file, dir_exists, dir_created, files, console,
               repo_commit_dict, known_good, group_idx, generated_files,
               total_module_count, exit_msg>>

call_vars == <<call_modules, call_dict, call_result>>

-----------------------------------------------------------------------------
(* Bounds of the model *)

\* longest List[Module] handed to a generator function directly
MaxCallModules == 2

\* most groups in a lockfile, and most modules in a lockfile (all groups
\* together), of a run of main()
MaxGroups == 2
MaxModules == 3

-----------------------------------------------------------------------------
(* Program constants *)

\* the {7,40} of the commit pattern
MinHexLen == 7
MaxHexLen == 40

\* patch_strip = 1
PatchStrip == 1

-----------------------------------------------------------------------------
(* Characters and strings *)

\* the character class [a-fA-F0-9]
HexChars == {"0", "1", "2", "3", "4", "5", "6", "7", "8", "9",
             "a", "b", "c", "d", "e", "f", "A", "B", "C", "D", "E", "F"}

HexCycle == <<"a", "B", "3", "d", "E", "9", "f", "0">>

\* a string of n hexadecimal characters
HexStr(n) == [i \in 1..n |-> HexCycle[((i - 1) % Len(HexCycle)) + 1]]

\* re.match(r'^[a-fA-F0-9]{7,40}$', commit): k characters of the class from the
\* start, 7 <= k <= 40, and then `$`, which in Python matches at the end of the
\* string and also just before a newline that ends the string.
HexMatch(commit) ==
    \E k \in MinHexLen..MaxHexLen :
        /\ k <= Len(commit)
        /\ \A i \in 1..k : commit[i] \in HexChars
        /\ \/ k = Len(commit)
           \/ k + 1 = Len(commit) /\ commit[k + 1] = "\n"

-----------------------------------------------------------------------------
(* generate_git_override_blocks *)

\* variant: the override is used only for a Module that has no hash of its own
ResolveCommit_OwnHashFirst(module, dict) ==
    IF module.hash = <<>> /\ module.repo \in DOMAIN dict
    THEN dict[module.repo]
    ELSE module.hash

\* lines 35-39: the module's hash, or the override registered for its repo
ResolveCommit(module, dict) ==
    IF module.repo \in DOMAIN dict THEN dict[module.repo] ELSE module.hash

\* lines 42-47: patches_lines, as (the patches list, whether patch_strip is written)
PatchesLines(module) ==
    IF module.bazel_patches # <<>>
    THEN [patches |-> module.bazel_patches, patch_strip |-> PatchStrip]
    ELSE [patches |-> <<>>, patch_strip |-> 0]

\* lines 51-58
VersionBlock(module) ==
    [kind |-> "single_version_override", module_name |-> module.name,
     version |-> module.version, remote |-> "", commit |-> <<>>, path |-> "",
     patches |-> PatchesLines(module).patches,
     patch_strip |-> PatchesLines(module).patch_strip]

\* lines 71-79
GitBlock(module, commit) ==
    [kind |-> "git_override", module_name |-> module.name,
     version |-> "", remote |-> module.repo, commit |-> commit, path |-> "",
     patches |-> PatchesLines(module).patches,
     patch_strip |-> PatchesLines(module).patch_strip]

\* variant: repo and commit are required before the version is looked at
GitBlockFor_RepoFirst(module, dict) ==
    LET commit == ResolveCommit(module, dict) IN
    IF module.repo = "" \/ commit = <<>>
    THEN <<>>
    ELSE IF module.version # ""
         THEN <<VersionBlock(module)>>
         ELSE IF ~HexMatch(commit)
              THEN <<>>
              ELSE <<GitBlock(module, commit)>>

\* lines 35-79, one iteration of the loop: <<block>>, or <<>> when the
\* iteration ends in `continue`
GitBlockFor(module, dict) ==
    LET commit == ResolveCommit(module, dict) IN
    IF module.version # ""
    THEN <<VersionBlock(module)>>
    ELSE IF module.repo = "" \/ commit = <<>>
         THEN <<>>
         ELSE IF ~HexMatch(commit)
              THEN <<>>
              ELSE <<GitBlock(module, commit)>>

\* variant: blocks.insert(0, block)
AppendBlock_Prepend(blocks, block) == <<block>> \o blocks

\* line 81 (and line 98): blocks.append(block)
AppendBlock(blocks, block) == Append(blocks, block)

RECURSIVE GitLoop(_, _, _, _)
GitLoop(modules, dict, i, blocks) ==
    IF i > Len(modules)
    THEN blocks
    ELSE LET b == GitBlockFor(modules[i], dict) IN
         GitLoop(modules, dict, i + 1,
                 IF b = <<>> THEN blocks ELSE AppendBlock(blocks, b[1]))

generate_git_override_blocks(modules, dict) == GitLoop(modules, dict, 1, <<>>)

-----------------------------------------------------------------------------
(* generate_local_override_blocks *)

\* variant: the path is taken from the Module's repo
LocalBlock_RepoPath(module) ==
    [kind |-> "local_path_override", module_name |-> module.name,
     version |-> "", remote |-> "", commit |-> <<>>, path |-> module.repo,
     patches |-> <<>>, patch_strip |-> 0]

\* lines 90-96
LocalBlock(module) ==
    [kind |-> "local_path_override", module_name |-> module.name,
     version |-> "", remote |-> "", commit |-> <<>>, path |-> module.name,
     patches |-> <<>>, patch_strip |-> 0]

RECURSIVE LocalLoop(_, _, _)
LocalLoop(modules, i, blocks) ==
    IF i > Len(modules)
    THEN blocks
    ELSE LocalLoop(modules, i + 1, AppendBlock(blocks, LocalBlock(modules[i])))

generate_local_override_blocks(modules) == LocalLoop(modules, 1, <<>>)

-----------------------------------------------------------------------------
(* generate_file_content *)

NoValidModulesMsg == "No valid modules to generate git_override blocks"

\* the text of lines 105-135 and 141
FileContent(a, blocks, timestamp) ==
    [license    |-> TRUE,
     provenance |-> timestamp,
     local_note |-> (a.override_type # "git"),
     blocks     |-> blocks]

\* variant: no check of line 138, the content is returned whatever blocks holds
generate_file_content_NoGuard(a, modules, dict, timestamp) ==
    LET blocks == IF a.override_type = "git"
                  THEN generate_git_override_blocks(modules, dict)
                  ELSE generate_local_override_blocks(modules)
    IN  [ok |-> TRUE, msg |-> "", content |-> <<FileContent(a, blocks, timestamp)>>]

\* variant: the SystemExit is raised as soon as one Module was skipped
generate_file_content_AnySkipFatal(a, modules, dict, timestamp) ==
    LET blocks == IF a.override_type = "git"
                  THEN generate_git_override_blocks(modules, dict)
                  ELSE generate_local_override_blocks(modules)
    IN  IF Len(blocks) < Len(modules) \/ blocks = <<>>
        THEN [ok |-> FALSE, msg |-> NoValidModulesMsg, content |-> <<>>]
        ELSE [ok |-> TRUE, msg |-> "", content |-> <<FileContent(a, blocks, timestamp)>>]

\* lines 102-141: ok with content = <<the returned text>>, or not ok with the
\* message of the SystemExit of line 139 and no content. The text is the
\* license header, the provenance comment of a truthy timestamp, the
\* local_path note, and the blocks joined in order.
generate_file_content(a, modules, dict, timestamp) ==
    LET blocks == IF a.override_type = "git"
                  THEN generate_git_override_blocks(modules, dict)
                  ELSE generate_local_override_blocks(modules)
    IN  IF blocks = <<>>
        THEN [ok |-> FALSE, msg |-> NoValidModulesMsg, content |-> <<>>]
        ELSE [ok |-> TRUE, msg |-> "",
              content |-> <<FileContent(a, blocks, timestamp)>>]

-----------------------------------------------------------------------------
(* models/known_good.py *)

\* Module.parse_modules: one Module per entry of a group's JSON object, named
\* by its key; an absent field reads as empty
ParseModules(entries) ==
    [i \in 1..Len(entries) |->
        [name          |-> entries[i].name,
         repo          |-> entries[i].repo,
         hash          |-> entries[i].hash,
         version       |-> entries[i].version,
         bazel_patches |-> entries[i].bazel_patches]]

\* KnownGood.from_dict, lines 36-45: groups whose value is not a JSON object
\* are left out; the others keep their order
RECURSIVE FromDictLoop(_, _, _)
FromDictLoop(groups, i, parsed) ==
    IF i > Len(groups)
    THEN parsed
    ELSE FromDictLoop(groups, i + 1,
            IF groups[i].is_dict
            THEN Append(parsed, [name    |-> groups[i].name,
                                 modules |-> ParseModules(groups[i].entries)])
            ELSE parsed)

from_dict(data) ==
    [loaded |-> TRUE, modules |-> FromDictLoop(data.groups, 1, <<>>),
     timestamp |-> data.timestamp]

\* load_known_good, lines 97-105: [ok |-> FALSE] stands for the ValueError
load_known_good(file) ==
    IF file.shape # "object"
    THEN [ok |-> FALSE, value |-> [loaded |-> FALSE, modules |-> <<>>, timestamp |-> ""]]
    ELSE [ok |-> TRUE, value |-> from_dict(file)]

-----------------------------------------------------------------------------
(* main: --repo-override *)

\* the URL part of the pattern of line 214, https://<host>/<path>.git, on the
\* URLs the model draws from
RepoA == "https://example.com/x.git"
RepoB == "https://example.com/y.git"
BadUrl == "http://example.com/x"

UrlMatch(url) == url \in {RepoA, RepoB}

\* line 216: an entry is url@sha; the sha part is matched by [a-fA-F0-9]{7,40}$
EntryMatch(entry) == UrlMatch(entry.url) /\ HexMatch(entry.sha)

\* lines 215-222, the loop without its SystemExit: later entries overwrite
RECURSIVE OverrideLoop(_, _, _)
OverrideLoop(entries, i, dict) ==
    IF i > Len(entries)
    THEN dict
    ELSE OverrideLoop(entries, i + 1,
                      (entries[i].url :> entries[i].sha) @@ dict)

-----------------------------------------------------------------------------
(* main *)

Fatal(msg) ==
    /\ pc' = "fatal"
    /\ exit_msg' = msg

\* lines 201-222: the input file must exist, every --repo-override must match
ParseArgs ==
    /\ pc = "start"
    /\ IF ~known_file.exists
       THEN /\ Fatal("known_good.json not found")
            /\ UNCHANGED repo_commit_dict
       ELSE IF \E i \in 1..Len(args.repo_override) : ~EntryMatch(args.repo_override[i])
            THEN /\ Fatal("Invalid --repo-override format")
                 /\ UNCHANGED repo_commit_dict
            ELSE /\ repo_commit_dict' = OverrideLoop(args.repo_override, 1, <<>>)
                 /\ pc' = "load"
                 /\ UNCHANGED exit_msg
    /\ UNCHANGED <<args, known_file, dir_exists, dir_created, files, console,
                   known_good, group_idx, generated_files, total_module_count>>
    /\ UNCHANGED call_vars

\* lines 224-233
LoadKnownGood ==
    /\ pc = "load"
    /\ LET r == load_known_good(known_file) IN
       IF ~r.ok
       THEN /\ Fatal("ERROR: Invalid known_good.json")
            /\ UNCHANGED known_good
       ELSE /\ known_good' = r.value
            /\ IF r.value.modules = <<>>
               THEN Fatal("No modules found in known_good.json")
               ELSE /\ pc' = "mkdir"
                    /\ UNCHANGED exit_msg
    /\ UNCHANGED <<args, known_file, dir_exists, dir_created, files, console,
                   repo_commit_dict, group_idx, generated_files, total_module_count>>
    /\ UNCHANGED call_vars

\* lines 236-240: os.makedirs(output_dir, exist_ok=True), whatever --dry-run is
MakeDirs ==
    /\ pc = "mkdir"
    /\ dir_created' = ~dir_exists
    /\ dir_exists' = TRUE
    /\ generated_files' = <<>>
    /\ total_module_count' = 0
    /\ pc' = "loop"
    /\ UNCHANGED <<args, known_file, files, console, repo_commit_dict, known_good,
                   group_idx, exit_msg>>
    /\ UNCHANGED call_vars

\* lines 242-268: one iteration of the loop over known_good.modules.items()
ProcessGroup ==
    /\ pc = "loop"
    /\ group_idx < Len(known_good.modules)
    /\ LET group   == known_good.modules[group_idx + 1]
           modules == group.modules
           r       == generate_file_content(args, modules, repo_commit_dict,
                                            known_good.timestamp)
       IN  IF modules = <<>>
           THEN /\ console' = Append(console, [out |-> "warning", group |-> group.name,
                                               content |-> <<>>, count |-> 0, files |-> 0])
                /\ group_idx' = group_idx + 1
                /\ UNCHANGED <<pc, exit_msg, files, generated_files, total_module_count>>
           ELSE IF ~r.ok
           THEN /\ Fatal(r.msg)
                /\ UNCHANGED <<console, group_idx, files, generated_files,
                               total_module_count>>
           ELSE IF args.dry_run
           THEN /\ console' = Append(console, [out |-> "dry_run", group |-> group.name,
                                               content |-> r.content,
                                               count |-> Len(modules), files |-> 0])
                /\ group_idx' = group_idx + 1
                /\ UNCHANGED <<pc, exit_msg, files, generated_files, total_module_count>>
           ELSE /\ files' = (group.name :> r.content[1]) @@ files
                /\ generated_files' = Append(generated_files, group.name)
                /\ total_module_count' = total_module_count + Len(modules)
                /\ console' = Append(console, [out |-> "generated", group |-> group.name,
                                               content |-> <<>>,
                                               count |-> Len(modules), files |-> 0])
                /\ group_idx' = group_idx + 1
                /\ UNCHANGED <<pc, exit_msg>>
    /\ UNCHANGED <<args, known_file, dir_exists, dir_created, repo_commit_dict, known_good>>
    /\ UNCHANGED call_vars

\* lines 270-271: the final summary, and the normal end of main
Finish ==
    /\ pc = "loop"
    /\ group_idx = Len(known_good.modules)
    /\ console' = IF ~args.dry_run /\ generated_files # <<>>
                  THEN Append(console, [out |-> "summary", group |-> "",
                                        content |-> <<>>,
                                        count |-> total_module_count,
                                        files |-> Len(generated_files)])
                  ELSE console
    /\ pc' = "done"
    /\ UNCHANGED <<args, known_file, dir_exists, dir_created, files, repo_commit_dict,
                   known_good, group_idx, generated_files, total_module_count, exit_msg>>
    /\ UNCHANGED call_vars

-----------------------------------------------------------------------------
(* Inputs *)

GroupNames == <<"base", "tooling", "extra", "more", "last">>
ModuleNames == <<"score_a", "score_b", "score_c", "score_d", "score_e", "score_f">>

\* a commit with one character outside the class
NonHexStr(n) == [HexStr(n) EXCEPT ![n - 1] = "g"]

\* the per-module JSON objects of the lockfiles main() is run on: a commit pin,
\* a pin without repo, a pin without hash, a pin with a too short hash, a
\* version pin with a patch
RawKinds ==
    { [repo |-> RepoA, hash |-> HexStr(MinHexLen), version |-> "", bazel_patches |-> <<>>],
      [repo |-> "", hash |-> HexStr(MinHexLen), version |-> "", bazel_patches |-> <<>>],
      [repo |-> RepoA, hash |-> <<>>, version |-> "", bazel_patches |-> <<>>],
      [repo |-> RepoB, hash |-> HexStr(MinHexLen - 1), version |-> "", bazel_patches |-> <<>>],
      [repo |-> "", hash |-> <<>>, version |-> "1.2.3",
       bazel_patches |-> <<"patches/fix.patch">>] }

RECURSIVE SumTo(_, _)
SumTo(s, n) == IF n = 0 THEN 0 ELSE SumTo(s, n - 1) + (IF s[n] < 0 THEN 0 ELSE s[n])

\* the shape of a lockfile: per group its number of modules, -1 for a group
\* whose JSON value is not an object
Shapes ==
    UNION { { s \in [1..n -> 0..MaxModules] : SumTo(s, n) <= MaxModules }
            : n \in 0..MaxGroups }

\* shapes with groups that are not objects
OddShapes ==
    UNION { [1..n -> {-1, 1}] : n \in 1..MaxGroups } \ Shapes

\* the lockfile of shape s whose modules, in file order, are flat[1], flat[2], ...
DocOf(s, flat, timestamp) ==
    [exists |-> TRUE, shape |-> "object", timestamp |-> timestamp,
     groups |->
        [g \in 1..Len(s) |->
            [name    |-> GroupNames[g],
             is_dict |-> s[g] >= 0,
             entries |->
                IF s[g] <= 0 THEN <<>>
                ELSE [j \in 1..s[g] |->
                        [name          |-> ModuleNames[SumTo(s, g - 1) + j],
                         repo          |-> flat[SumTo(s, g - 1) + j].repo,
                         hash          |-> flat[SumTo(s, g - 1) + j].hash,
                         version       |-> flat[SumTo(s, g - 1) + j].version,
                         bazel_patches |-> flat[SumTo(s, g - 1) + j].bazel_patches]]]]]

Timestamp == "2024-01-01T00:00:00Z"

\* an absent file, a JSON array, an object without a "modules" object
BadFiles ==
    { [exists |-> FALSE, shape |-> "none", timestamp |-> "", groups |-> <<>>],
      [exists |-> TRUE, shape |-> "not_object", timestamp |-> "", groups |-> <<>>],
      [exists |-> TRUE, shape |-> "no_modules_object", timestamp |-> "", groups |-> <<>>] }

LongPin == [repo |-> RepoA, hash |-> HexStr(MaxHexLen), version |-> "",
            bazel_patches |-> <<>>]

\* lockfiles without "timestamp", some with groups that are not objects
OddDocs ==
    { DocOf(s, [i \in 1..MaxGroups |-> LongPin], "") : s \in OddShapes \cup {<<1>>} }

GoodOverride == [url |-> RepoB, sha |-> HexStr(MaxHexLen)]

\* --repo-override lists that match the pattern
GoodOverrides == { <<>>, <<GoodOverride>> }

\* --repo-override lists with an entry that does not
BadOverrides ==
    { <<[url |-> BadUrl, sha |-> HexStr(MinHexLen)]>>,
      <<GoodOverride, [url |-> RepoA, sha |-> HexStr(MinHexLen - 1)]>>,
      <<[url |-> RepoA, sha |-> NonHexStr(MinHexLen)]>> }

NoCall == [fn |-> "none", blocks |-> <<>>, ok |-> TRUE]

InitMain ==
    /\ pc = "start"
    \* every lockfile of the bounds, into an output directory that does not exist yet
    /\ \/ /\ \E s \in Shapes :
               \E flat \in [1..SumTo(s, Len(s)) -> RawKinds] :
                  known_file = DocOf(s, flat, Timestamp)
          /\ args \in [dry_run : BOOLEAN, override_type : {"git", "local_path"},
                       repo_override : GoodOverrides]
          /\ dir_exists = FALSE
       \* the unusual input files and command lines, into either kind of directory
       \/ /\ known_file \in BadFiles \cup OddDocs
          /\ args \in [dry_run : BOOLEAN, override_type : {"git", "local_path"},
                       repo_override : GoodOverrides \cup BadOverrides]
          /\ dir_exists \in BOOLEAN
    /\ dir_created = FALSE
    /\ files = <<>>
    /\ console = <<>>
    /\ repo_commit_dict = <<>>
    /\ known_good = [loaded |-> FALSE, modules |-> <<>>, timestamp |-> ""]
    /\ group_idx = 0
    /\ generated_files = <<>>
    /\ total_module_count = 0
    /\ exit_msg = ""
    /\ call_modules = <<>>
    /\ call_dict = <<>>
    /\ call_result = NoCall

IdleMain ==
    /\ pc = "idle"
    /\ args = [dry_run |-> FALSE, override_type |-> "git", repo_override |-> <<>>]
    /\ known_file = [exists |-> FALSE, shape |-> "none", timestamp |-> "", groups |-> <<>>]
    /\ dir_exists = FALSE
    /\ dir_created = FALSE
    /\ files = <<>>
    /\ console = <<>>
    /\ repo_commit_dict = <<>>
    /\ known_good = [loaded |-> FALSE, modules |-> <<>>, timestamp |-> ""]
    /\ group_idx = 0
    /\ generated_files = <<>>
    /\ total_module_count = 0
    /\ exit_msg = ""

\* the commit strings handed to the generator functions: none, one character
\* short, shortest, longest, one character long, one character outside the
\* class, and a shortest one followed by a newline
CallCommits ==
    { <<>>, HexStr(MinHexLen - 1), HexStr(MinHexLen), HexStr(MaxHexLen),
      HexStr(MaxHexLen + 1), NonHexStr(MinHexLen), HexStr(MinHexLen) \o <<"\n">> }

\* the Modules handed to the generator functions: commit pins with a repo and
\* every commit string, commit pins without repo, version pins with and without
\* repo and hash, and pins with patches
CallKinds ==
    [repo : {RepoA, RepoB}, hash : CallCommits, version : {""}, bazel_patches : {<<>>}]
    \cup
    [repo : {""}, hash : {<<>>, HexStr(MinHexLen)}, version : {""}, bazel_patches : {<<>>}]
    \cup
    [repo : {"", RepoA, RepoB}, hash : {<<>>, NonHexStr(MinHexLen), HexStr(MinHexLen)},
     version : {"1.2.3"}, bazel_patches : {<<>>}]
    \cup
    [repo : {RepoA}, hash : {HexStr(MinHexLen)}, version : {"", "1.2.3"},
     bazel_patches : {<<"a.patch", "b.patch">>}]

\* the Module list of kinds k: the i-th Module is named ModuleNames[i]
CallList(k) ==
    [i \in 1..Len(k) |->
        [name          |-> ModuleNames[i],
         repo          |-> k[i].repo,
         hash          |-> k[i].hash,
         version       |-> k[i].version,
         bazel_patches |-> k[i].bazel_patches]]

\* the commit-override maps: none, one for RepoA, one for RepoA whose value is
\* no commit hash (the functions do not check the map's values)
CallDicts ==
    { <<>>, RepoA :> HexStr(MaxHexLen), RepoA :> NonHexStr(MaxHexLen) }

InitCall ==
    /\ IdleMain
    /\ \E n \in 0..MaxCallModules :
         \E k \in [1..n -> CallKinds] : call_modules = CallList(k)
    /\ call_dict \in CallDicts
    /\ call_result = NoCall

\* generate_git_override_blocks(call_modules, call_dict)
CallGitBlocks ==
    /\ call_result.fn = "none"
    /\ call_result' = [fn |-> "git_blocks", ok |-> TRUE,
                       blocks |-> generate_git_override_blocks(call_modules, call_dict)]
    /\ UNCHANGED <<call_modules, call_dict>>
    /\ UNCHANGED main_vars

\* generate_local_override_blocks(call_modules)
CallLocalBlocks ==
    /\ call_result.fn = "none"
    /\ call_result' = [fn |-> "local_blocks", ok |-> TRUE,
                       blocks |-> generate_local_override_blocks(call_modules)]
    /\ UNCHANGED <<call_modules, call_dict>>
    /\ UNCHANGED main_vars

\* generate_file_content(args, call_modules, call_dict, timestamp) for either
\* --override-type
CallFileContent ==
    /\ call_result.fn = "none"
    /\ \E t \in {"git", "local_path"} :
         LET r == generate_file_content([override_type |-> t], call_modules,
                                        call_dict, Timestamp)
         IN  call_result' = [fn |-> "file_content_" \o t, ok |-> r.ok,
                             blocks |-> IF r.ok THEN r.content[1].blocks ELSE <<>>]
    /\ UNCHANGED <<call_modules, call_dict>>
    /\ UNCHANGED main_vars

NextCall ==
    \/ CallGitBlocks
    \/ CallLocalBlocks
    \/ CallFileContent

SpecGen == InitCall /\ [][NextCall]_vars

Next ==
    \/ ParseArgs
    \/ LoadKnownGood
    \/ MakeDirs
    \/ ProcessGroup
    \/ Finish

Spec == InitMain /\ [][Next]_vars

-----------------------------------------------------------------------------
(* Vocabulary of the properties, stated on inputs and outputs only *)

\* a string of 7 to 40 characters, all of them hexadecimal digits
IsHexCommit(c) ==
    /\ Len(c) >= MinHexLen
    /\ Len(c) <= MaxHexLen
    /\ \A i \in 1..Len(c) : c[i] \in HexChars

\* the commit a Module resolves to under a commit-override map
Resolved(m, dict) == IF m.repo \in DOMAIN dict THEN dict[m.repo] ELSE m.hash

\* a Module the git strategy skips: no version and an empty repo, an empty
\* resolved commit, or a resolved commit the commit pattern does not match
IsSkipped(m, dict) ==
    /\ m.version = ""
    /\ \/ m.repo = ""
       \/ Resolved(m, dict) = <<>>
       \/ ~HexMatch(Resolved(m, dict))

AllSkipped(modules, dict) == \A i \in 1..Len(modules) : IsSkipped(modules[i], dict)

NumValid(modules, dict) ==
    Cardinality({ i \in 1..Len(modules) : ~IsSkipped(modules[i], dict) })

\* the positions of the blocks that carry a Module's name
BlocksOf(blocks, name) == { j \in 1..Len(blocks) : blocks[j].module_name = name }

\* the position in the input list of the Module a block names
PosOf(modules, name) == CHOOSE i \in 1..Len(modules) : modules[i].name = name

Groups == known_good.modules

\* group k's content was generated: printed by a dry run, written otherwise
Generated(k) ==
    IF args.dry_run
    THEN \E j \in 1..Len(console) :
            console[j].out = "dry_run" /\ console[j].group = Groups[k].name
    ELSE Groups[k].name \in DOMAIN files

\* a non-empty group before group k has all its modules skipped
AbortedBefore(k) ==
    \E j \in 1..(k - 1) :
        Groups[j].modules # <<>> /\ AllSkipped(Groups[j].modules, repo_commit_dict)

Ended == pc \in {"done", "fatal"}

RECURSIVE SumBlocks(_)
SumBlocks(names) ==
    IF names = {} THEN 0
    ELSE LET n == CHOOSE x \in names : TRUE
         IN  Len(files[n].blocks) + SumBlocks(names \ {n})

Summaries == { j \in 1..Len(console) : console[j].out = "summary" }

-----------------------------------------------------------------------------
(* Properties *)

\* C1: in the git strategy a non-empty group whose every Module is skipped
\* makes generate_file_content exit fatally: the loop never gets past that
\* group, nothing is written or printed for it, the run does not end
\* normally, and no written file has zero override blocks.
C1_EmptyOutputGuard ==
    /\ \A n \in DOMAIN files : files[n].blocks # <<>>
    /\ args.override_type = "git" =>
        \A k \in 1..Len(Groups) :
            (Groups[k].modules # <<>> /\ AllSkipped(Groups[k].modules, repo_commit_dict))
            => /\ group_idx < k
               /\ Groups[k].name \notin DOMAIN files
               /\ ~Generated(k)
               /\ pc # "done"
               /\ (group_idx = k - 1 /\ pc \notin {"mkdir", "loop"})
                    => (pc = "fatal" /\ exit_msg = NoValidModulesMsg)

\* C1 witness: the second group of a lockfile is all skipped and ended the run,
\* after the first group's file was written
C1_Witness ==
    /\ pc = "fatal"
    /\ exit_msg = NoValidModulesMsg
    /\ args.override_type = "git"
    /\ ~args.dry_run
    /\ group_idx = 1
    /\ Len(Groups[2].modules) = 2
    /\ AllSkipped(Groups[2].modules, repo_commit_dict)
    /\ DOMAIN files = {Groups[1].name}

\* C2 as stated: in the git strategy, once the run has ended, every group with
\* at least one valid module has its file generated, whatever the other
\* groups hold and whatever the group order.
C2_SiblingsAlwaysGenerated ==
    (Ended /\ args.override_type = "git") =>
        \A k \in 1..Len(Groups) :
            (Groups[k].modules # <<>> /\ ~AllSkipped(Groups[k].modules, repo_commit_dict))
            => Generated(k)

\* C2 amended: in the git strategy, once the run has ended, a group's file is
\* generated exactly when the group has at least one valid module and no
\* non-empty group before it has all its modules skipped (such a group ends
\* the run); a generated file holds one block per valid module of its group,
\* so skipped modules reduce the output without aborting anything.
C2_SiblingsUnlessAborted ==
    args.override_type = "git" =>
        \A k \in 1..Len(Groups) :
            /\ Generated(k) =>
                /\ k <= group_idx
                /\ ~AllSkipped(Groups[k].modules, repo_commit_dict)
                /\ ~AbortedBefore(k)
            /\ (Ended /\ Groups[k].modules # <<>>
                      /\ ~AllSkipped(Groups[k].modules, repo_commit_dict)
                      /\ ~AbortedBefore(k))
                => Generated(k)
            /\ Groups[k].name \in DOMAIN files =>
                Len(files[Groups[k].name].blocks)
                    = NumValid(Groups[k].modules, repo_commit_dict)

\* C2 witness: a group with a skipped and a valid module and a second group, both
\* written, the first with one block
C2_Witness ==
    /\ pc = "done"
    /\ args.override_type = "git"
    /\ ~args.dry_run
    /\ Len(Groups) = 2
    /\ DOMAIN files = {Groups[1].name, Groups[2].name}
    /\ Len(Groups[1].modules) = 2
    /\ Len(files[Groups[1].name].blocks) = 1
    /\ Len(files[Groups[2].name].blocks) = 1

\* C3: with --dry-run the run writes nothing: no output file, and the output
\* directory is not created.
C3_DryRunNoWrites ==
    args.dry_run => (files = <<>> /\ ~dir_created)

\* C4: a lockfile that holds zero modules in the whole file never lets the
\* run end normally.
C4_ZeroModulesFatal ==
    (/\ known_file.exists
     /\ known_file.shape = "object"
     /\ \A g \in 1..Len(known_file.groups) : known_file.groups[g].entries = <<>>)
    => pc # "done"

\* C5: after generate_git_override_blocks, a Module without version whose repo
\* is a key of the commit-override map has at most one block, a git_override
\* carrying the override value as commit, emitted exactly when the override
\* value is non-empty and matches the commit pattern, whatever the Module's
\* own hash is; the call leaves the Modules as they were.
C5_OverrideResult ==
    call_result.fn = "git_blocks" =>
        \A i \in 1..Len(call_modules) :
            LET m  == call_modules[i]
                bs == BlocksOf(call_result.blocks, m.name)
            IN  (m.version = "" /\ m.repo \in DOMAIN call_dict) =>
                    /\ Cardinality(bs) <= 1
                    /\ \A j \in bs :
                        /\ call_result.blocks[j].kind = "git_override"
                        /\ call_result.blocks[j].commit = call_dict[m.repo]
                        /\ call_result.blocks[j].remote = m.repo
                    /\ (bs # {}) <=> (call_dict[m.repo] # <<>> /\ HexMatch(call_dict[m.repo]))

C5_OverrideApplied ==
    [](C5_OverrideResult) /\ [][call_modules' = call_modules]_vars

\* C5 witness: a Module with a valid own hash, and one with a malformed own
\* hash, both emitted with the override commit, which differs from their own
C5_Witness ==
    /\ call_result.fn = "git_blocks"
    /\ Len(call_modules) = 2
    /\ Len(call_result.blocks) = 2
    /\ \A i \in 1..2 :
        /\ call_modules[i].version = ""
        /\ call_modules[i].repo \in DOMAIN call_dict
        /\ call_result.blocks[i].commit = call_dict[call_modules[i].repo]
        /\ call_result.blocks[i].commit # call_modules[i].hash
    /\ IsHexCommit(call_modules[1].hash)
    /\ ~IsHexCommit(call_modules[2].hash)

\* C6: after generate_git_override_blocks, every Module with a version has
\* exactly one block, a single_version_override carrying its name and version,
\* whatever its repo and hash and whatever the commit-override map holds.
C6_VersionPrecedence ==
    call_result.fn = "git_blocks" =>
        \A i \in 1..Len(call_modules) :
            LET m  == call_modules[i]
                bs == BlocksOf(call_result.blocks, m.name)
            IN  m.version # "" =>
                    /\ Cardinality(bs) = 1
                    /\ \A j \in bs :
                        /\ call_result.blocks[j].kind = "single_version_override"
                        /\ call_result.blocks[j].version = m.version
                        /\ call_result.blocks[j].module_name = m.name

\* C6 witness: version pins without repo, and with an overridden repo and a
\* malformed hash, both emitted
C6_Witness ==
    /\ call_result.fn = "git_blocks"
    /\ Len(call_modules) = 2
    /\ call_modules[1].version # "" /\ call_modules[1].repo = ""
    /\ call_modules[1].hash = <<>>
    /\ call_modules[2].version # "" /\ call_modules[2].repo \in DOMAIN call_dict
    /\ ~IsHexCommit(call_modules[2].hash) /\ call_modules[2].hash # <<>>
    /\ Len(call_result.blocks) = 2
    /\ call_result.blocks[2].kind = "single_version_override"

\* C7: after generate_git_override_blocks, a Module without version and with
\* a repo has a git_override block if and only if its resolved commit is 7 to
\* 40 characters, all hexadecimal digits, and the block carries that commit.
C7_HashValidation ==
    call_result.fn = "git_blocks" =>
        \A i \in 1..Len(call_modules) :
            LET m  == call_modules[i]
                bs == BlocksOf(call_result.blocks, m.name)
            IN  (m.version = "" /\ m.repo # "") =>
                    /\ (bs # {}) <=> IsHexCommit(Resolved(m, call_dict))
                    /\ \A j \in bs :
                        /\ call_result.blocks[j].kind = "git_override"
                        /\ call_result.blocks[j].commit = Resolved(m, call_dict)

\* C8: when a normal run has ended with a summary, the summary's file count is
\* the number of files written and its module count is the number of override
\* blocks in those files.
C8_SummaryCounts ==
    (pc = "done" /\ ~args.dry_run) =>
        \A j \in Summaries :
            /\ console[j].files = Cardinality(DOMAIN files)
            /\ console[j].count = SumBlocks(DOMAIN files)

\* C9: the blocks returned by either generator name Modules of the input, one
\* block per non-skipped Module (none is skipped by the local strategy) and
\* none for a skipped one, in the order of the input list.
C9_OrderPreserved ==
    call_result.fn \in {"git_blocks", "local_blocks"} =>
        LET blocks == call_result.blocks
            kept   == { i \in 1..Len(call_modules) :
                          \/ call_result.fn = "local_blocks"
                          \/ ~IsSkipped(call_modules[i], call_dict) }
        IN  /\ Len(blocks) = Cardinality(kept)
            /\ \A j \in 1..Len(blocks) :
                /\ \E i \in kept : call_modules[i].name = blocks[j].module_name
            /\ \A a, b \in 1..Len(blocks) :
                a < b <=> PosOf(call_modules, blocks[a].module_name)
                            < PosOf(call_modules, blocks[b].module_name)

\* C9 witness: two blocks of different kinds returned in input order
C9_Witness ==
    /\ call_result.fn = "git_blocks"
    /\ Len(call_modules) = 2
    /\ Len(call_result.blocks) = 2
    /\ call_result.blocks[1].kind = "git_override"
    /\ call_result.blocks[2].kind = "single_version_override"
    /\ call_result.blocks[1].module_name = call_modules[1].name
    /\ call_result.blocks[2].module_name = call_modules[2].name

\* C10: in the local-path strategy every Module has exactly one block, a
\* local_path_override whose module_name and path are the Module's name,
\* whatever its other fields and the commit-override map are; the blocks are
\* as many as the Modules, and generate_file_content returns content for
\* every non-empty list.
C10_LocalPath ==
    /\ call_result.fn \in {"local_blocks", "file_content_local_path"} =>
        /\ Len(call_result.blocks) = Len(call_modules)
        /\ \A i \in 1..Len(call_modules) :
            /\ call_result.blocks[i].kind = "local_path_override"
            /\ call_result.blocks[i].module_name = call_modules[i].name
            /\ call_result.blocks[i].path = call_modules[i].name
            /\ call_result.blocks[i].patches = <<>>
    /\ (call_result.fn = "file_content_local_path" /\ call_modules # <<>>)
        => call_result.ok

\* C10 witness: content returned for a list of two Modules the git strategy
\* skips, under a commit-override map
C10_Witness ==
    /\ call_result.fn = "file_content_local_path"
    /\ call_result.ok
    /\ Len(call_modules) = 2
    /\ AllSkipped(call_modules, call_dict)
    /\ call_dict # <<>>
    /\ Len(call_result.blocks) = 2

====
